---- MODULE Spec2Model ----
(***************************************************************************)
(* featureseek: resolution of feature barcodes against a reference panel   *)
(* (src/src/barcodes.rs), per-cell count aggregation (src/src/counts.rs),  *)
(* the paired read source (src/src/reader.rs) and the driver loop          *)
(* (src/src/main.rs).                                                      *)
(*                                                                         *)
(* Byte strings are sequences over Alphabet.  BCLENGTH is scaled down from *)
(* 15 so that the whole barcode space can be enumerated; the edit-distance *)
(* radius 2 of Barcodes::find is kept.  Cell codes are compared only for   *)
(* equality by the program and are modelled as opaque values.  Reference   *)
(* positions are 0-based as in the source (records[pos] is the TLA+        *)
(* sequence element pos + 1).                                              *)
(***************************************************************************)
EXTENDS Integers, Sequences, FiniteSets, TLC

\* ------------------------------------------------------------------ bounds
BCLENGTH == 3          \* barcode length (main.rs: 15), scaled down
MaxPanel == 2          \* rows in the reference csv
MaxReads == 3          \* complete records in each FastQ file
MaxThreshold == 1      \* largest min_reads and floor fed to passes()
MaxCount == 4          \* largest read total fed to passes()
MaxPerm == 3           \* length of the permuted read streams

Alphabet == {1, 2}
Barcode == [1..BCLENGTH -> Alphabet]
ShortField == [i \in 1..(BCLENGTH - 1) |-> 1]
ExpectedHeader == "idnamereadpatternsequencefeature_type"

EmptyMap == [k \in {} |-> 0]

\* ---------------------------------------------------------------- HashMap
\* HashMap::insert: a later value for the same key replaces the earlier one
insert(m, k, v) == [x \in DOMAIN m \cup {k} |-> IF x = k THEN v ELSE m[x]]

\* ------------------------------------------------------------ barcodes.rs
Min2(a, b) == IF a <= b THEN a ELSE b

\* one row of the edit-distance table: cur holds the entries for the prefixes
\* of b of length 0..Len(cur) - 1, prev the complete row above it
RECURSIVE lev_fill(_, _, _, _)
lev_fill(prev, ai, b, cur) ==
    IF Len(cur) = Len(b) + 1 THEN cur
    ELSE LET j == Len(cur)
         IN  lev_fill(prev, ai, b,
                      Append(cur, Min2(Min2(prev[j + 1] + 1, cur[j] + 1),
                                       prev[j] + (IF ai = b[j] THEN 0 ELSE 1))))

RECURSIVE lev_rows(_, _, _, _)
lev_rows(a, b, i, prev) ==
    IF i > Len(a) THEN prev[Len(b) + 1]
    ELSE lev_rows(a, b, i + 1, lev_fill(prev, a[i], b, <<prev[1] + 1>>))

\* triple_accel::levenshtein::levenshtein_exp: the Levenshtein distance
\* (substitutions, insertions and deletions cost 1 each)
levenshtein_exp(a, b) == lev_rows(a, b, 1, [j \in 1..(Len(b) + 1) |-> j - 1])

dist(a, b) == levenshtein_exp(a, b)


\* variant: the search radius taken as exclusive
bktree_find_exclusive(tree, val, max_dist) ==
    {h \in {<<k, dist(k, val)>> : k \in tree} : h[2] < max_dist}

\* BkTree::find(val, max_dist): every inserted value within max_dist of val,
\* paired with its distance
bktree_find(tree, val, max_dist) ==
    {h \in {<<k, dist(k, val)>> : k \in tree} : h[2] <= max_dist}

NoHit == [tag |-> "NoHit"]
Multiple == [tag |-> "Multiple"]
Unique(i) == [tag |-> "Unique", pos |-> i]
Dist(i, d) == [tag |-> "Dist", pos |-> i, dist |-> d]


\* variant: the first row of a barcode keeps its position (entry().or_insert)
RECURSIVE insert_rows_keep_first(_, _)
insert_rows_keep_first(rows, n) ==
    IF n = 0 THEN EmptyMap
    ELSE LET m == insert_rows_keep_first(rows, n - 1)
         IN  IF rows[n] \in DOMAIN m THEN m ELSE insert(m, rows[n], n - 1)

\* the loop of from_csv over reader.records().enumerate(): rows 1..n of the
\* csv, row n at position n - 1
RECURSIVE insert_rows(_, _)
insert_rows(rows, n) ==
    IF n = 0 THEN EmptyMap
    ELSE insert(insert_rows(rows, n - 1), rows[n], n - 1)

from_csv(csv) ==
    IF csv.header # ExpectedHeader THEN [err |-> "Header error"]
    ELSE IF \E n \in 1..Len(csv.rows) : Len(csv.rows[n]) # BCLENGTH
         THEN [err |-> "Barcode length"]
    ELSE LET map == insert_rows(csv.rows, Len(csv.rows))
         IN  [err |-> "", records |-> csv.rows, barcodes |-> map,
              bktree |-> DOMAIN map]

find(self, s, approximate) ==
    IF s \in DOMAIN self.barcodes THEN Unique(self.barcodes[s])
    ELSE IF approximate
         THEN LET hits == bktree_find(self.bktree, s, 2)
              IN  CASE Cardinality(hits) = 0 -> NoHit
                    [] Cardinality(hits) = 1 ->
                         LET h == CHOOSE x \in hits : TRUE
                         IN  Dist(self.barcodes[h[1]], h[2])
                    [] OTHER -> Multiple
    ELSE NoHit

\* -------------------------------------------------------------- counts.rs
\* Option<T>
None == <<>>
Some(v) == <<v>>

\* Counts::default()
CountsDefault ==
    [cells |-> EmptyMap, ignored |-> 0, multiple |-> 0, nohit |-> 0,
     not_whitelisted |-> 0, unknown |-> EmptyMap]


\* variant: a present key is set to 1 again instead of incremented
count_id_reset(self, id) == insert(self, id, 1)

\* BarcodeCounts::count
count_id(self, id) ==
    IF id \in DOMAIN self THEN [self EXCEPT ![id] = @ + 1]
    ELSE insert(self, id, 1)


\* variant: the cell gets a fresh BarcodeCounts on every hit (insert instead
\* of entry().or_default())
entry_count_fresh(cellcounts, cellcode, id) ==
    insert(cellcounts, cellcode, count_id(EmptyMap, id))

\* HashMap::entry(key).or_default() followed by BarcodeCounts::count
entry_count(cellcounts, cellcode, id) ==
    LET cell == IF cellcode \in DOMAIN cellcounts THEN cellcounts[cellcode]
                ELSE EmptyMap
    IN  insert(cellcounts, cellcode, count_id(cell, id))

count_barcode(self, cellcode, pos) ==
    [self EXCEPT !.cells = entry_count(self.cells, cellcode, pos)]

count_unknown(self, cellcode, barcode) ==
    [self EXCEPT !.unknown = entry_count(self.unknown, cellcode, barcode)]

ignored(self) == [self EXCEPT !.ignored = @ + 1]
nohit(self) == [self EXCEPT !.nohit = @ + 1]

\* variant: the ambiguous read is booked on the no-hit counter
multiple_as_nohit(self) == [self EXCEPT !.nohit = @ + 1]

multiple(self) == [self EXCEPT !.multiple = @ + 1]
not_whitelisted(self) == [self EXCEPT !.not_whitelisted = @ + 1]


\* variant: counts equal to min_reads are kept (>= instead of >)
filter_hits_inclusive(self, min_reads) ==
    {<<id, self[id]>> : id \in {i \in DOMAIN self : self[i] >= min_reads}}

\* BarcodeCounts::filter_hits: the (id, count) items with count > min_reads
filter_hits(self, min_reads) ==
    {<<id, self[id]>> : id \in {i \in DOMAIN self : self[i] > min_reads}}

\* the for_each closure of CellCounts::summary
accumulate(result, item) ==
    LET c == IF item[1] \in DOMAIN result THEN result[item[1]] ELSE <<0, 0>>
    IN  insert(result, item[1], <<c[1] + item[2], c[2] + 1>>)

RECURSIVE fold_items(_, _)
fold_items(items, result) ==
    IF items = {} THEN result
    ELSE LET it == CHOOSE x \in items : TRUE
         IN  fold_items(items \ {it}, accumulate(result, it))

\* CellCounts::summary: values().flat_map(filter_hits).for_each(...)
RECURSIVE summary_from(_, _, _, _)
summary_from(self, todo, min_reads, result) ==
    IF todo = {} THEN result
    ELSE LET cell == CHOOSE c \in todo : TRUE
         IN  summary_from(self, todo \ {cell}, min_reads,
                          fold_items(filter_hits(self[cell], min_reads), result))

summary(self, min_reads) == summary_from(self, DOMAIN self, min_reads, EmptyMap)

passes(count, cells, min_reads, min_cells, reads_per_cell) ==
    count > min_reads
    /\ (cells >= min_cells
        \/ (IF reads_per_cell = None THEN TRUE
            ELSE (count \div cells) > reads_per_cell[1]))

\* Summary::gen_table: one row per summary entry, green when it passes
gen_table(cnts, min_reads, min_cells, reads_per_cell) ==
    LET hits == summary(cnts.cells, min_reads)
    IN  [pos \in DOMAIN hits |->
            [count |-> hits[pos][1], cells |-> hits[pos][2],
             green |-> passes(hits[pos][1], hits[pos][2], min_reads, min_cells,
                              reads_per_cell)]]

\* Summary::print_unknown: the rows of the unknown-barcode table
print_unknown(cnts, min_reads) == summary(cnts.unknown, min_reads)

\* Summary::write_csv: the positions handed to Barcodes::write_csv
write_csv(cnts, min_reads, min_cells, reads_per_cell) ==
    LET result == summary(cnts.cells, min_reads)
    IN  {pos \in DOMAIN result :
            passes(result[pos][1], result[pos][2], min_reads, min_cells,
                   reads_per_cell)}

\* ---------------------------------------------------------------- main.rs
\* Whitelist::contains
contains(ws, v) == v \in ws


\* variant: the ignore list is consulted before the whitelist
loop_body_ignore_first(cnts, cfg, panel, c, b) ==
    IF cfg.ignore # {} /\ b \in cfg.ignore
    THEN ignored(cnts)
    ELSE IF cfg.whitelist # None /\ ~contains(cfg.whitelist[1], c)
    THEN not_whitelisted(cnts)
    ELSE LET result == find(panel, b, cfg.approximate)
         IN  CASE result.tag = "Unique" -> count_barcode(cnts, c, result.pos)
               [] result.tag = "Dist" -> count_barcode(cnts, c, result.pos)
               [] result.tag = "NoHit" ->
                    nohit(IF cfg.unknown THEN count_unknown(cnts, c, b) ELSE cnts)
               [] result.tag = "Multiple" -> multiple(cnts)

\* the body of the while loop of main after a successful read_code
loop_body(cnts, cfg, panel, c, b) ==
    IF cfg.whitelist # None /\ ~contains(cfg.whitelist[1], c)
    THEN not_whitelisted(cnts)
    ELSE IF cfg.ignore # {} /\ b \in cfg.ignore
    THEN ignored(cnts)
    ELSE LET result == find(panel, b, cfg.approximate)
         IN  CASE result.tag = "Unique" -> count_barcode(cnts, c, result.pos)
               [] result.tag = "Dist" -> count_barcode(cnts, c, result.pos)
               [] result.tag = "NoHit" ->
                    nohit(IF cfg.unknown THEN count_unknown(cnts, c, b) ELSE cnts)
               [] result.tag = "Multiple" -> multiple(cnts)

\* ---------------------------------------------------------------- reader.rs
\* one side of the FastQ pair: `left` complete records still to come; what
\* follows them, a clean end of file or a truncated record, shows when the
\* iterator gets there (truncated = TRUE)
advance_err(r, truncated) == r.left = 0 /\ truncated
advance(r) == IF r.left > 0 THEN [r EXCEPT !.left = @ - 1] ELSE r
has_record(r) == r.left > 0

\* Reader::read_code: "err" = Some(Err), "none" = None, "ok" = Some(Ok(()));
\* every complete record is long enough for the two slices
read_code(self, truncated1, truncated2) ==
    IF advance_err(self.r1, truncated1) THEN [res |-> "err", reader |-> self]
    ELSE IF advance_err(self.r2, truncated2)
    THEN [res |-> "err", reader |-> [self EXCEPT !.r1 = advance(self.r1)]]
    ELSE LET after == [r1 |-> advance(self.r1), r2 |-> advance(self.r2)]
         IN  IF ~has_record(self.r1) THEN [res |-> "none", reader |-> after]
             ELSE IF ~has_record(self.r2) THEN [res |-> "none", reader |-> after]
             ELSE [res |-> "ok", reader |-> after]

\* ------------------------------------------------------------- model input
CellCodes == {"c1", "c2"}
WhitelistFile == {"c1"}

AllOf(x) == [i \in 1..BCLENGTH |-> x]
LastOf(x, y) == [i \in 1..BCLENGTH |-> IF i = BCLENGTH THEN y ELSE x]
MidOf(x, y) == [i \in 1..BCLENGTH |-> IF i = 2 THEN y ELSE x]

\* the reference csv of the run and the barcodes that occur in its reads
\* AllOf(3) and LastOf(2, 4) use bytes outside Barcode's two-letter alphabet:
\* a panel row and a read more than two edits away from every other barcode
RunCsv == [header |-> ExpectedHeader,
           rows |-> <<AllOf(1), LastOf(1, 2), AllOf(3)>>]
ReadBarcodes == {AllOf(1), LastOf(1, 2), MidOf(1, 2), AllOf(2), LastOf(2, 4),
                 AllOf(3)}
IgnoreList == {AllOf(3)}

Configs ==
    [whitelist : {None, Some(WhitelistFile)},
     ignore : {IgnoreList},
     unknown : BOOLEAN,
     approximate : BOOLEAN,
     min_reads : {0, 1},
     min_cells : {2},
     reads_per_cell : {None, Some(1)},
     out : {TRUE}]

Sides == [left : 0..MaxReads]

NoCsv == [header |-> "", rows |-> <<>>]
NoPanel == [err |-> "unloaded"]
NoConfig == [whitelist |-> None, ignore |-> {}, unknown |-> FALSE,
             approximate |-> FALSE, min_reads |-> 0, min_cells |-> 0,
             reads_per_cell |-> None, out |-> FALSE]
NoReader == [r1 |-> [left |-> 0], r2 |-> [left |-> 0]]

VARIABLES
    csv,            \* the reference csv file: header and barcode column
    barcodes,       \* Barcodes (records, barcodes map, bktree) or load error
    config,         \* Config
    reader,         \* Reader: the two FastQ iterators
    counts,         \* Counts
    count,          \* reads examined
    cc, bc,         \* the cell code / barcode buffers of main
    pc,             \* "loop", "done" (Ok(())), "error" (Err returned)
    table,          \* rows of the final print_matches table
    unknown_table,  \* rows of print_unknown
    out_csv,        \* positions written by write_csv, None if not written
    query, result,  \* arguments and return value of Barcodes::find
    args, verdict,  \* arguments and return value of passes
    streamA, streamB, finalA, finalB  \* two read orders and their Counts

vars == <<csv, barcodes, config, reader, counts, count, cc, bc, pc, table,
          unknown_table, out_csv, query, result, args, verdict,
          streamA, streamB, finalA, finalB>>

findVars == <<query, result>>
passVars == <<args, verdict>>
permVars == <<streamA, streamB, finalA, finalB>>
runVars == <<reader, counts, count, cc, bc, pc, table, unknown_table, out_csv>>

FindIdle == query = None /\ result = None
PassIdle == args = None /\ verdict = None
PermIdle == streamA = <<>> /\ streamB = <<>> /\ finalA = None /\ finalB = None
RunIdle ==
    /\ reader = NoReader /\ counts = CountsDefault /\ count = 0
    /\ cc = "" /\ bc = AllOf(0) /\ pc = "idle"
    /\ table = None /\ unknown_table = None /\ out_csv = None

\* ------------------------------------------------------------ main: the run
Init ==
    /\ csv = RunCsv
    /\ barcodes = from_csv(csv)
    /\ config \in Configs
    /\ reader \in [r1 : Sides, r2 : Sides]
    /\ counts = CountsDefault
    /\ count = 0
    /\ cc = "" /\ bc = AllOf(0)
    /\ pc = "loop"
    /\ table = None /\ unknown_table = None /\ out_csv = None
    /\ FindIdle /\ PassIdle /\ PermIdle

\* one iteration of `while let Some(result) = reader.read_code(..)` that
\* reads a pair (c, b) and classifies it; both sides hold a record, so what
\* follows the last record of either file plays no part
Iterate ==
    /\ pc = "loop"
    /\ read_code(reader, FALSE, FALSE).res = "ok"
    /\ reader' = read_code(reader, FALSE, FALSE).reader
    /\ \E c \in CellCodes, b \in ReadBarcodes :
          /\ cc' = c
          /\ bc' = b
          /\ counts' = loop_body(counts, config, barcodes, c, b)
    /\ count' = count + 1
    /\ UNCHANGED <<csv, barcodes, config, pc, table, unknown_table, out_csv>>
    /\ UNCHANGED <<findVars, passVars, permVars>>

\* read_code returns Some(Err(e)): `result?` leaves main with the error
StreamError ==
    /\ pc = "loop"
    /\ \E truncated1, truncated2 \in BOOLEAN :
          /\ read_code(reader, truncated1, truncated2).res = "err"
          /\ reader' = read_code(reader, truncated1, truncated2).reader
    /\ pc' = "error"
    /\ UNCHANGED <<csv, barcodes, config, counts, count, cc, bc, table,
                   unknown_table, out_csv>>
    /\ UNCHANGED <<findVars, passVars, permVars>>

\* read_code returns None: final summary, optional unknown table and csv
\* (--out is given in every run of Configs)
Finish ==
    /\ pc = "loop"
    /\ \E truncated1, truncated2 \in BOOLEAN :
          /\ read_code(reader, truncated1, truncated2).res = "none"
          /\ reader' = read_code(reader, truncated1, truncated2).reader
    /\ table' = Some(gen_table(counts, config.min_reads, config.min_cells,
                               config.reads_per_cell))
    /\ unknown_table' = IF config.unknown
                        THEN Some(print_unknown(counts, config.min_reads))
                        ELSE unknown_table
    /\ out_csv' = IF config.out
                  THEN Some(write_csv(counts, config.min_cells, config.min_reads,
                                      config.reads_per_cell))
                  ELSE out_csv
    /\ pc' = "done"
    /\ UNCHANGED <<csv, barcodes, config, counts, count, cc, bc>>
    /\ UNCHANGED <<findVars, passVars, permVars>>

Next == Iterate \/ StreamError \/ Finish

Spec == Init /\ [][Next]_vars

\* ------------------------------------------- Barcodes::from_csv and ::find
SeqsUpTo(S, n) == UNION {[1..k -> S] : k \in 0..n}

InitFind ==
    /\ csv \in [header : {ExpectedHeader, "idnamesequence"},
                rows : SeqsUpTo(Barcode \cup {ShortField}, MaxPanel)]
    /\ barcodes = NoPanel
    /\ config = NoConfig
    /\ RunIdle /\ FindIdle /\ PassIdle /\ PermIdle

Load ==
    /\ barcodes = NoPanel
    /\ barcodes' = from_csv(csv)
    /\ UNCHANGED <<csv, config, runVars, findVars, passVars, permVars>>

Find ==
    /\ barcodes.err = ""
    /\ result = None
    /\ \E s \in Barcode, approximate \in BOOLEAN :
          /\ query' = Some([s |-> s, approximate |-> approximate])
          /\ result' = Some(find(barcodes, s, approximate))
    /\ UNCHANGED <<csv, barcodes, config, runVars, passVars, permVars>>

NextFind == Load \/ Find

SpecFind == InitFind /\ [][NextFind]_vars

\* ------------------------------------------------------------------ passes
\* the rows passes() is called on come from summary(min_reads): every counted
\* cell holds more than min_reads reads
PassArgs ==
    {a \in [count : 1..MaxCount, cells : 1..MaxCount,
            min_reads : 0..MaxThreshold, min_cells : 1..(MaxThreshold + 1),
            reads_per_cell : {None} \cup {Some(r) : r \in 0..MaxThreshold}] :
        a.count >= a.cells * (a.min_reads + 1)}

InitPasses ==
    /\ args \in {Some(a) : a \in PassArgs}
    /\ verdict = None
    /\ csv = NoCsv /\ barcodes = NoPanel /\ config = NoConfig
    /\ RunIdle /\ FindIdle /\ PermIdle

Passes ==
    /\ verdict = None
    /\ verdict' = Some(passes(args[1].count, args[1].cells, args[1].min_reads,
                              args[1].min_cells, args[1].reads_per_cell))
    /\ UNCHANGED <<csv, barcodes, config, runVars, findVars, args, permVars>>

SpecPasses == InitPasses /\ [][Passes]_vars

\* ------------------------------------------- the run on two orders of reads
\* the counters after the loop of main has consumed `stream`
RECURSIVE run_loop(_, _, _, _)
run_loop(stream, n, cfg, panel) ==
    IF n = 0 THEN CountsDefault
    ELSE loop_body(run_loop(stream, n - 1, cfg, panel), cfg, panel,
                   stream[n].cc, stream[n].bc)

\* what main leaves behind after the loop: counters, table and csv
run_main(stream, cfg, panel) ==
    LET cnts == run_loop(stream, Len(stream), cfg, panel)
    IN  [counts |-> cnts,
         table |-> gen_table(cnts, cfg.min_reads, cfg.min_cells,
                             cfg.reads_per_cell),
         out_csv |-> write_csv(cnts, cfg.min_cells, cfg.min_reads,
                               cfg.reads_per_cell)]

PermBarcodes == {AllOf(1), LastOf(1, 2), MidOf(1, 2)}
PermReads == [cc : CellCodes, bc : PermBarcodes]
PermConfigs == {c \in Configs : c.min_reads = 0 /\ c.min_cells = 2
                                /\ c.reads_per_cell = None}

swap(stream, i) ==
    [k \in 1..Len(stream) |->
        IF k = i THEN stream[i + 1] ELSE IF k = i + 1 THEN stream[i]
        ELSE stream[k]]

InitPerm ==
    /\ csv = RunCsv
    /\ barcodes = from_csv(csv)
    /\ config \in PermConfigs
    /\ streamA \in SeqsUpTo(PermReads, MaxPerm)
    /\ streamB = streamA
    /\ finalA = Some(run_main(streamA, config, barcodes))
    /\ finalB = finalA
    /\ RunIdle /\ FindIdle /\ PassIdle

\* exchange two neighbouring read pairs of the second stream and run it
Permute ==
    /\ \E i \in 1..(Len(streamB) - 1) :
          /\ streamB' = swap(streamB, i)
          /\ finalB' = Some(run_main(streamB', config, barcodes))
    /\ UNCHANGED <<csv, barcodes, config, runVars, findVars, passVars,
                   streamA, finalA>>

SpecPerm == InitPerm /\ [][Permute]_vars

\* ================================================================= claims
Range(f) == {f[x] : x \in DOMAIN f}
Refs == 0..(Len(csv.rows) - 1)

\* count of (cell, key) in a CellCounts map, 0 when there is no entry
Get(m, c, k) == IF c \in DOMAIN m /\ k \in DOMAIN m[c] THEN m[c][k] ELSE 0
Keys(m) == UNION {DOMAIN m[c] : c \in DOMAIN m}

RECURSIVE SumTo(_, _)
SumTo(f, n) == IF n = 0 THEN 0 ELSE f[n] + SumTo(f, n - 1)

\* sum of all counts of a CellCounts map, level by level: k times the number
\* of (cell, key) entries that hold exactly k
Total(m) ==
    LET entries == UNION {{<<c, k>> : k \in DOMAIN m[c]} : c \in DOMAIN m}
    IN  SumTo([n \in 1..MaxReads |->
                  n * Cardinality({e \in entries : m[e[1]][e[2]] = n})],
              MaxReads)

\* the filter of the specification: all three predicates conjunctive
FilterPasses(total, ncells, min_reads, min_cells, floor) ==
    /\ ncells >= min_cells
    /\ total > min_reads
    /\ (floor = None \/ (total \div ncells) > floor[1])

\* C1: a summary row passes iff cell_count >= min_cells AND total_reads >
\* min_reads AND (no floor OR total_reads / cell_count > floor); in particular
\* a row with cell_count = min_cells - 1 never passes
C1_FilterConjunction ==
    verdict # None =>
        verdict[1] = FilterPasses(args[1].count, args[1].cells, args[1].min_reads,
                                  args[1].min_cells, args[1].reads_per_cell)

\* C2: after a successful run with min_reads = R and min_cells = C the csv
\* holds exactly the indices that pass the filter over summarize(R) with read
\* threshold R and cell threshold C
C2_OutputIsFilterOfSummary ==
    (pc = "done" /\ out_csv # None) =>
        LET sm == summary(counts.cells, config.min_reads)
        IN  out_csv[1] =
               {x \in DOMAIN sm :
                   FilterPasses(sm[x][1], sm[x][2], config.min_reads,
                                config.min_cells, config.reads_per_cell)}

\* C3: whitelist first, then ignore list, then resolution: a read with a cell
\* code off the whitelist only increments not_whitelisted; a whitelisted read
\* with an ignored barcode only increments ignored; only the others are
\* resolved (and they touch neither of these two counters)
C3_Step ==
    count' = count + 1 =>
        IF config.whitelist # None /\ cc' \notin config.whitelist[1]
        THEN counts' = [counts EXCEPT !.not_whitelisted = @ + 1]
        ELSE IF bc' \in config.ignore
        THEN counts' = [counts EXCEPT !.ignored = @ + 1]
        ELSE /\ counts'.not_whitelisted = counts.not_whitelisted
             /\ counts'.ignored = counts.ignored
             /\ \/ counts'.cells # counts.cells
                \/ counts'.nohit = counts.nohit + 1
                \/ counts'.multiple = counts.multiple + 1

\* C3: every loop iteration applies whitelist, ignore list, resolution in
\* this order
C3_WhitelistIgnoreResolve == [][C3_Step]_vars

\* two reads: a whitelisted cell with the ignored panel barcode, then a cell
\* off the whitelist with the same barcode
C3_Witness ==
    /\ config.whitelist # None /\ cc \notin config.whitelist[1]
    /\ bc \in config.ignore /\ bc \in Range(csv.rows)
    /\ counts.not_whitelisted = 1 /\ counts.ignored = 1 /\ count = 2
    /\ counts.cells = EmptyMap

\* C6: for every threshold m and reference index x, summarize(m) maps x to
\* (sum of count(cell, x) over the cells with count(cell, x) > m, number of
\* such cells); an index with no such cell has no row
C6_Qualifying(m, x) == {c \in DOMAIN counts.cells : Get(counts.cells, c, x) > m}

C6_SumAbove(m, x) ==
    SumTo([k \in 1..MaxReads |->
              IF k > m
              THEN k * Cardinality({c \in DOMAIN counts.cells :
                                       Get(counts.cells, c, x) = k})
              ELSE 0],
          MaxReads)

C6_ThresholdLaw ==
    \A m \in 0..MaxReads :
        LET sm == summary(counts.cells, m)
        IN  /\ DOMAIN sm \subseteq Refs
            /\ \A x \in Refs :
                  IF C6_Qualifying(m, x) = {} THEN x \notin DOMAIN sm
                  ELSE /\ x \in DOMAIN sm
                       /\ sm[x] = <<C6_SumAbove(m, x),
                                    Cardinality(C6_Qualifying(m, x))>>

\* one cell holds 2 reads of reference 0, another exactly 1: with m = 1 only
\* the first one is counted
C6_Witness ==
    /\ \E c, d \in DOMAIN counts.cells :
          Get(counts.cells, c, 0) = 2 /\ Get(counts.cells, d, 0) = 1
    /\ summary(counts.cells, 1)[0] = <<2, 1>>
    /\ summary(counts.cells, 0)[0] = <<3, 2>>

\* C8: streams of differing lengths are a fatal stream error without output;
\* the run ends normally only when both sides are exhausted at the same read
C8_Step ==
    /\ (pc = "loop" /\ (reader.r1.left = 0) # (reader.r2.left = 0))
          => (pc' = "error" /\ out_csv' = None /\ table' = None)
    /\ (pc = "loop" /\ pc' = "done")
          => (reader.r1.left = 0 /\ reader.r2.left = 0)

\* C8: every step treats streams of differing lengths as a fatal error
C8_DifferingLengthsFatal == [][C8_Step]_vars

\* a read that passed the whitelist and the ignore list in this step
C9_Resolved ==
    /\ count' = count + 1
    /\ ~(config.whitelist # None /\ cc' \notin config.whitelist[1])
    /\ bc' \notin config.ignore

\* every (cell, key) count of m2 is the one of m1, plus 1 at (c, k)
C9_AddsOne(m1, m2, c, k) ==
    /\ DOMAIN m2 = DOMAIN m1 \cup {c}
    /\ Keys(m2) = Keys(m1) \cup {k}
    /\ \A d \in DOMAIN m2 : \A x \in Keys(m2) :
          Get(m2, d, x) = Get(m1, d, x) + (IF d = c /\ x = k THEN 1 ELSE 0)

C9_Scalars(c1, c2, dn, dm) ==
    /\ c2.nohit = c1.nohit + dn
    /\ c2.multiple = c1.multiple + dm
    /\ c2.ignored = c1.ignored
    /\ c2.not_whitelisted = c1.not_whitelisted

\* C9: dispatch changes exactly the counters of the outcome: Unique(i) and
\* ApproxHit(i, d) add 1 to (cell, i) only; Ambiguous adds 1 to the ambiguous
\* counter only; NoHit adds 1 to the no-hit counter and, iff count-unknown is
\* enabled, 1 to the (cell, raw barcode) unknown counter
C9_Step ==
    C9_Resolved =>
        LET r == find(barcodes, bc', config.approximate)
        IN  CASE r.tag \in {"Unique", "Dist"} ->
                   /\ C9_AddsOne(counts.cells, counts'.cells, cc', r.pos)
                   /\ counts'.unknown = counts.unknown
                   /\ C9_Scalars(counts, counts', 0, 0)
              [] r.tag = "Multiple" ->
                   /\ counts'.cells = counts.cells
                   /\ counts'.unknown = counts.unknown
                   /\ C9_Scalars(counts, counts', 0, 1)
              [] r.tag = "NoHit" ->
                   /\ counts'.cells = counts.cells
                   /\ IF config.unknown
                      THEN C9_AddsOne(counts.unknown, counts'.unknown, cc', bc')
                      ELSE counts'.unknown = counts.unknown
                   /\ C9_Scalars(counts, counts', 1, 0)

\* C9: every resolved read changes exactly the counters of its outcome
C9_DispatchFrame == [][C9_Step]_vars

\* an ambiguous read, a counted unknown and then an approximate hit
C9_Witness ==
    /\ config.unknown /\ config.approximate /\ count = 3
    /\ counts.multiple = 1 /\ counts.nohit = 1
    /\ Total(counts.unknown) = 1 /\ Total(counts.cells) = 1
    /\ find(barcodes, bc, TRUE).tag = "Dist"
    /\ Get(counts.cells, cc, find(barcodes, bc, TRUE).pos) = 1

\* C10: reads examined = not_whitelisted + ignored + no-hit + ambiguous + sum
\* of all (cell, reference) counts; the unknown counts sum to the no-hit
\* counter when count-unknown is on and stay empty when it is off
C10_Conserved ==
    /\ count = counts.not_whitelisted + counts.ignored + counts.nohit
               + counts.multiple + Total(counts.cells)
    /\ IF config.unknown THEN Total(counts.unknown) = counts.nohit
       ELSE counts.unknown = EmptyMap

C10_Terms(c) ==
    <<c.not_whitelisted, c.ignored, c.nohit, c.multiple, Total(c.cells)>>

\* no (cell, key) count goes down and no entry disappears
C10_Grows(m1, m2) ==
    /\ DOMAIN m1 \subseteq DOMAIN m2
    /\ \A c \in DOMAIN m1 :
          /\ DOMAIN m1[c] \subseteq DOMAIN m2[c]
          /\ \A k \in DOMAIN m1[c] : m2[c][k] >= m1[c][k]

\* each read adds exactly 1 to exactly one of the five terms
C10_Step ==
    LET before == C10_Terms(counts)
        after == C10_Terms(counts')
    IN  /\ C10_Grows(counts.cells, counts'.cells)
        /\ C10_Grows(counts.unknown, counts'.unknown)
        /\ \A i \in 1..5 : after[i] >= before[i]
        /\ count' = count + 1 =>
              Cardinality({i \in 1..5 : after[i] = before[i] + 1}) = 1

\* C10: the reads are conserved in every state and every read adds 1 to
\* exactly one term, no counter decreasing and no entry removed
C10_ReadConservation == []C10_Conserved /\ [][C10_Step]_vars

\* three reads, one discarded, one unknown, one credited
C10_Witness ==
    /\ count = 3 /\ config.unknown
    /\ counts.not_whitelisted = 1 /\ counts.nohit = 1
    /\ Total(counts.unknown) = 1 /\ Total(counts.cells) = 1

\* the textbook recurrence of the Levenshtein distance on the prefixes of
\* length i and j
RECURSIVE EditAt(_, _, _, _)
EditAt(a, b, i, j) ==
    IF i = 0 THEN j
    ELSE IF j = 0 THEN i
    ELSE Min2(Min2(EditAt(a, b, i - 1, j) + 1, EditAt(a, b, i, j - 1) + 1),
              EditAt(a, b, i - 1, j - 1) + (IF a[i] = b[j] THEN 0 ELSE 1))

EditDistance(a, b) == EditAt(a, b, Len(a), Len(b))

C4_Rows(s) == {n \in 1..Len(csv.rows) : csv.rows[n] = s}
C4_LastRow(s) == CHOOSE n \in C4_Rows(s) : \A k \in C4_Rows(s) : k <= n

\* C4 as stated: for every row i with barcode r, resolve(r, false) and
\* resolve(r, true) return Unique(i), also when two rows carry the same barcode
C4_ExactMatchEveryRow ==
    result # None =>
        \A n \in C4_Rows(query[1].s) : result[1] = Unique(n - 1)

\* C4 amended: resolve(r, false) and resolve(r, true) return Unique(j), j the
\* last row that carries r (the row itself when no later row repeats it)
C4_ExactMatchLastRow ==
    (result # None /\ C4_Rows(query[1].s) # {}) =>
        result[1] = Unique(C4_LastRow(query[1].s) - 1)

\* two rows carry the same barcode: the lookup answers with the second one
C4_Witness ==
    /\ result # None /\ Len(csv.rows) = 2 /\ csv.rows[1] = csv.rows[2]
    /\ query[1].s = csv.rows[1]
    /\ result[1] = Unique(1)

C5_Near(q) == {r \in Range(csv.rows) : EditDistance(r, q) <= 2}

\* C5: for a query q equal to no reference barcode, resolve(q, false) is
\* NoHit and resolve(q, true) is decided by the number n of distinct reference
\* barcodes within distance 2: NoHit for 0, ApproxHit(index, true distance)
\* for 1, Ambiguous for 2 or more
C5_ApproximateByCount ==
    (result # None /\ C4_Rows(query[1].s) = {}) =>
        LET q == query[1].s
            n == Cardinality(C5_Near(q))
        IN  IF ~query[1].approximate THEN result[1] = NoHit
            ELSE CASE n = 0 -> result[1] = NoHit
                   [] n = 1 ->
                        \E r \in C5_Near(q) : \E i \in C4_Rows(r) :
                           /\ result[1] = Dist(i - 1, EditDistance(r, q))
                           /\ result[1].dist \in {1, 2}
                   [] OTHER -> result[1] = Multiple

\* two candidates, one strictly closer than the other: still ambiguous
C5_Witness ==
    /\ result # None /\ query[1].approximate /\ result[1] = Multiple
    /\ \E r1, r2 \in C5_Near(query[1].s) :
          EditDistance(r1, query[1].s) = 1 /\ EditDistance(r2, query[1].s) = 2

\* C7: any permutation of the same read pairs leaves identical counters,
\* identical summary table and identical csv
C7_OrderIndependent == finalA = finalB

\* three different reads in reversed order: two references in one cell and
\* a read that is not credited
C7_Witness ==
    /\ Len(streamA) = 3 /\ streamB = <<streamA[3], streamA[2], streamA[1]>>
    /\ streamA[1] # streamA[2] /\ streamA[2] # streamA[3] /\ streamA[1] # streamA[3]
    /\ \E c \in DOMAIN finalB[1].counts.cells :
          Cardinality(DOMAIN finalB[1].counts.cells[c]) = 2
    /\ finalB[1].counts.nohit + finalB[1].counts.multiple
       + finalB[1].counts.not_whitelisted = 1
    /\ finalA = finalB
====
